---- MODULE Spec2Model ----
(***************************************************************************)
(* Model of mapnik's include/mapnik/feature.hpp: the attribute schema      *)
(* (class context) and the feature record (class feature_impl).            *)
(*                                                                         *)
(* One context is shared by the feature records of Recs.  An attribute     *)
(* name (std::string) is modelled by its rank in std::string's ordering,   *)
(* so the key order of std::map<std::string,std::size_t> is < on Names.    *)
(* An attribute value (mapnik::value) is modelled by a number, Null being  *)
(* the default-constructed value.  A geometry is modelled by the box its   *)
(* envelope() returns.                                                     *)
(***************************************************************************)
EXTENDS Integers, Sequences, FiniteSets, TLC

\* ------------------------------------------------------------ bounds
NumNames == 2      \* attribute names 1..NumNames
NumVals == 1       \* non-null attribute values 1..NumVals
MaxId == 1         \* identifiers 0..MaxId
MaxGeoms == 2      \* geometries of a record in SpecEnv
MaxCoord == 2      \* coordinates 0..MaxCoord

Names == 1..NumNames
Null == 0
Values == {Null} \cup (1..NumVals)
Junk == -1
Ids == 0..MaxId
Recs == {"R1", "R2"}
Rasters == {"none", "raster"}
Coords == 0..MaxCoord

VARIABLES
    mapping_,     \* context::mapping_: name -> slot
    order,        \* history: the names in the order of their first push call
    dup,          \* history: some push call named a name pushed before
    live,         \* the records that have been constructed
    id_,          \* feature_impl::id_ of each record
    data_,        \* feature_impl::data_ of each record (1-based: slot k is data_[r][k+1])
    geom_cont_,   \* feature_impl::geom_cont_ of each record
    raster_,      \* feature_impl::raster_ of each record
    ctorSize,     \* history: context::size() when the record was constructed
    ctorNames,    \* history: the names of the schema when the record was constructed
    last          \* the last call and its outcome

vars == <<mapping_, order, dup, live, id_, data_, geom_cont_, raster_, ctorSize, ctorNames, last>>

\* ------------------------------------------------------------ box2d<double>
Min(a, b) == IF a < b THEN a ELSE b
Max(a, b) == IF a < b THEN b ELSE a

Box(x0, y0, x1, y1) == [minx |-> x0, miny |-> y0, maxx |-> x1, maxy |-> y1]

\* box2d<double>(): the empty / uninitialized rectangle
EmptyBox == Box(0, 0, -1, -1)

\* box2d::init(x0,y0,x1,y1)
box_init(x0, y0, x1, y1) == Box(Min(x0, x1), Min(y0, y1), Max(x0, x1), Max(y0, y1))

\* box2d::expand_to_include(box2d const&)
expand_to_include(b, o) ==
    Box(Min(b.minx, o.minx), Min(b.miny, o.miny), Max(b.maxx, o.maxx), Max(b.maxy, o.maxy))

\* the boxes a geometry's envelope() can return
Boxes == {b \in [minx : Coords, miny : Coords, maxx : Coords, maxy : Coords] :
            b.minx <= b.maxx /\ b.miny <= b.maxy}

\* ------------------------------------------------------------ context
\* context::size
ctx_size == Cardinality(DOMAIN mapping_)

\* mutant of map_insert: mapping_[name] = slot, which overwrites a present key
map_insert_overwrite(m, name, slot) ==
    [k \in DOMAIN m \cup {name} |-> IF k = name THEN slot ELSE m[k]]

\* std::map::insert(std::make_pair(name, slot)): no effect when the key is present
map_insert(m, name, slot) ==
    IF name \in DOMAIN m THEN m
    ELSE [k \in DOMAIN m \cup {name} |-> IF k = name THEN slot ELSE m[k]]

\* context::begin .. context::end: the entries of the map in key order
RECURSIVE InKeyOrder(_, _)
InKeyOrder(m, keys) ==
    IF keys = {} THEN <<>>
    ELSE LET k == CHOOSE x \in keys : \A y \in keys : x <= y
         IN <<[name |-> k, slot |-> m[k]]>> \o InKeyOrder(m, keys \ {k})

ctx_iterate == InKeyOrder(mapping_, DOMAIN mapping_)

NoCall == [op |-> "none", rec |-> "R1", key |-> 1, val |-> Null, threw |-> FALSE,
           crashed |-> FALSE, out |-> <<>>, reads |-> {}]

\* mutant of push: slots counted from 1
push_one_based(name) ==
    /\ mapping_' = map_insert(mapping_, name, ctx_size + 1)
    /\ order' = IF \E i \in 1..Len(order) : order[i] = name THEN order ELSE Append(order, name)
    /\ dup' = (dup \/ \E i \in 1..Len(order) : order[i] = name)
    /\ last' = [NoCall EXCEPT !.op = "push", !.key = name]
    /\ UNCHANGED <<live, id_, data_, geom_cont_, raster_, ctorSize, ctorNames>>

\* context::push
push(name) ==
    /\ mapping_' = map_insert(mapping_, name, ctx_size)
    /\ order' = IF \E i \in 1..Len(order) : order[i] = name THEN order ELSE Append(order, name)
    /\ dup' = (dup \/ \E i \in 1..Len(order) : order[i] = name)
    /\ last' = [NoCall EXCEPT !.op = "push", !.key = name]
    /\ UNCHANGED <<live, id_, data_, geom_cont_, raster_, ctorSize, ctorNames>>

\* ------------------------------------------------------------ feature_impl
\* mutant of ctor: one value slot too many
ctor_oversized(r, id) ==
    /\ r \notin live
    /\ live' = live \cup {r}
    /\ id_' = [id_ EXCEPT ![r] = id]
    /\ data_' = [data_ EXCEPT ![r] = [i \in 1..(ctx_size + 1) |-> Null]]
    /\ ctorSize' = [ctorSize EXCEPT ![r] = ctx_size]
    /\ ctorNames' = [ctorNames EXCEPT ![r] = DOMAIN mapping_]
    /\ last' = [NoCall EXCEPT !.op = "ctor", !.rec = r]
    /\ UNCHANGED <<mapping_, order, dup, geom_cont_, raster_>>

\* feature_impl::feature_impl(ctx, id)
ctor(r, id) ==
    /\ r \notin live
    /\ live' = live \cup {r}
    /\ id_' = [id_ EXCEPT ![r] = id]
    /\ data_' = [data_ EXCEPT ![r] = [i \in 1..ctx_size |-> Null]]
    /\ ctorSize' = [ctorSize EXCEPT ![r] = ctx_size]
    /\ ctorNames' = [ctorNames EXCEPT ![r] = DOMAIN mapping_]
    /\ last' = [NoCall EXCEPT !.op = "ctor", !.rec = r]
    /\ UNCHANGED <<mapping_, order, dup, geom_cont_, raster_>>

\* feature_impl::set_id
set_id(r, id) ==
    /\ r \in live
    /\ id_' = [id_ EXCEPT ![r] = id]
    /\ last' = [NoCall EXCEPT !.op = "set_id", !.rec = r]
    /\ UNCHANGED <<mapping_, order, dup, live, data_, geom_cont_, raster_, ctorSize, ctorNames>>

\* the test of put and get: the key is found and its slot is inside data_
in_range(r, key) == key \in DOMAIN mapping_ /\ mapping_[key] < Len(data_[r])

\* mutant of put: the value goes to the first slot, whatever the key's slot
put_first_slot(r, key, val) ==
    /\ r \in live
    /\ IF in_range(r, key)
       THEN /\ data_' = [data_ EXCEPT ![r][1] = val]
            /\ last' = [NoCall EXCEPT !.op = "put", !.rec = r, !.key = key, !.val = val]
       ELSE /\ data_' = data_
            /\ last' = [NoCall EXCEPT !.op = "put", !.rec = r, !.key = key, !.val = val,
                                      !.threw = TRUE]
    /\ UNCHANGED <<mapping_, order, dup, live, id_, geom_cont_, raster_, ctorSize, ctorNames>>

\* mutant of put: a key of the schema whose slot is outside data_ grows data_
put_grows(r, key, val) ==
    /\ r \in live
    /\ IF key \in DOMAIN mapping_
       THEN /\ data_' = [data_ EXCEPT ![r] =
                           [i \in 1..Max(Len(data_[r]), mapping_[key] + 1) |->
                              IF i = mapping_[key] + 1 THEN val
                              ELSE IF i <= Len(data_[r]) THEN data_[r][i] ELSE Null]]
            /\ last' = [NoCall EXCEPT !.op = "put", !.rec = r, !.key = key, !.val = val]
       ELSE /\ data_' = data_
            /\ last' = [NoCall EXCEPT !.op = "put", !.rec = r, !.key = key, !.val = val,
                                      !.threw = TRUE]
    /\ UNCHANGED <<mapping_, order, dup, live, id_, geom_cont_, raster_, ctorSize, ctorNames>>

\* mutant of put: the value sequence is shared by the records of the schema
put_shared(r, key, val) ==
    /\ r \in live
    /\ IF in_range(r, key)
       THEN /\ data_' = [x \in Recs |->
                           IF mapping_[key] < Len(data_[x])
                           THEN [data_[x] EXCEPT ![mapping_[key] + 1] = val]
                           ELSE data_[x]]
            /\ last' = [NoCall EXCEPT !.op = "put", !.rec = r, !.key = key, !.val = val]
       ELSE /\ data_' = data_
            /\ last' = [NoCall EXCEPT !.op = "put", !.rec = r, !.key = key, !.val = val,
                                      !.threw = TRUE]
    /\ UNCHANGED <<mapping_, order, dup, live, id_, geom_cont_, raster_, ctorSize, ctorNames>>

\* feature_impl::put(key, val)
put(r, key, val) ==
    /\ r \in live
    /\ IF in_range(r, key)
       THEN /\ data_' = [data_ EXCEPT ![r][mapping_[key] + 1] = val]
            /\ last' = [NoCall EXCEPT !.op = "put", !.rec = r, !.key = key, !.val = val]
       ELSE /\ data_' = data_
            /\ last' = [NoCall EXCEPT !.op = "put", !.rec = r, !.key = key, !.val = val,
                                      !.threw = TRUE]
    /\ UNCHANGED <<mapping_, order, dup, live, id_, geom_cont_, raster_, ctorSize, ctorNames>>

\* feature_impl::has_key
has_key(r, key) == key \in DOMAIN mapping_

\* feature_impl::get: the value returned, or threw (std::out_of_range)
get(r, key) ==
    IF in_range(r, key)
    THEN [threw |-> FALSE, val |-> data_[r][mapping_[key] + 1]]
    ELSE [threw |-> TRUE, val |-> Null]

\* feature_impl::size
size(r) == Len(data_[r])

\* feature_impl::add_geometry
add_geometry(r, geom) ==
    /\ r \in live
    /\ geom_cont_' = [geom_cont_ EXCEPT ![r] = Append(@, geom)]
    /\ last' = [NoCall EXCEPT !.op = "add_geometry", !.rec = r]
    /\ UNCHANGED <<mapping_, order, dup, live, id_, data_, raster_, ctorSize, ctorNames>>

\* feature_impl::num_geometries
num_geometries(r) == Len(geom_cont_[r])

\* feature_impl::get_geometry (index in range)
get_geometry(r, index) == geom_cont_[r][index + 1]

\* mutant of envelope_loop: every geometry initializes the result
RECURSIVE envelope_loop_reinit(_, _, _)
envelope_loop_reinit(geoms, i, result) ==
    IF i < Len(geoms)
    THEN LET box == geoms[i + 1]
         IN envelope_loop_reinit(geoms, i + 1,
                box_init(box.minx, box.miny, box.maxx, box.maxy))
    ELSE result

\* feature_impl::envelope: the loop over a geometry collection, from index i on
RECURSIVE envelope_loop(_, _, _)
envelope_loop(geoms, i, result) ==
    IF i < Len(geoms)
    THEN LET box == geoms[i + 1]
         IN envelope_loop(geoms, i + 1,
                IF i = 0 THEN box_init(box.minx, box.miny, box.maxx, box.maxy)
                ELSE expand_to_include(result, box))
    ELSE result

\* feature_impl::envelope of a geometry collection: box2d<double> result; the loop
envelope_of(geoms) == envelope_loop(geoms, 0, EmptyBox)

envelope(r) == envelope_of(geom_cont_[r])

\* feature_impl::set_raster
set_raster(r, raster) ==
    /\ r \in live
    /\ raster_' = [raster_ EXCEPT ![r] = raster]
    /\ last' = [NoCall EXCEPT !.op = "set_raster", !.rec = r]
    /\ UNCHANGED <<mapping_, order, dup, live, id_, data_, geom_cont_, ctorSize, ctorNames>>

\* feature_impl::to_string: one line per entry of the map, in key order, each
\* reading data_[slot] unchecked.  A slot outside data_ is an out-of-bounds
\* read of the vector: the call crashes, or the line shows whatever is there
\* (Junk).
to_string(r) ==
    /\ r \in live
    /\ LET entries == ctx_iterate
           outside == {i \in 1..Len(entries) : entries[i].slot >= Len(data_[r])}
       IN \/ /\ outside # {}
             /\ last' = [NoCall EXCEPT !.op = "to_string", !.rec = r, !.crashed = TRUE,
                                       !.reads = {entries[i].slot : i \in 1..Len(entries)}]
          \/   last' = [NoCall EXCEPT !.op = "to_string", !.rec = r,
                            !.reads = {entries[i].slot : i \in 1..Len(entries)},
                            !.out = [i \in 1..Len(entries) |->
                                       [name |-> entries[i].name,
                                        value |-> IF i \in outside THEN Junk
                                                  ELSE data_[r][entries[i].slot + 1]]]]
    /\ UNCHANGED <<mapping_, order, dup, live, id_, data_, geom_cont_, raster_, ctorSize, ctorNames>>

\* ------------------------------------------------------------ specifications
Init ==
    /\ mapping_ = <<>>
    /\ order = <<>>
    /\ dup = FALSE
    /\ live = {}
    /\ id_ = [r \in Recs |-> 0]
    /\ data_ = [r \in Recs |-> <<>>]
    /\ geom_cont_ = [r \in Recs |-> <<>>]
    /\ raster_ = [r \in Recs |-> "none"]
    /\ ctorSize = [r \in Recs |-> 0]
    /\ ctorNames = [r \in Recs |-> {}]
    /\ last = NoCall

\* the geometry attached in Spec, where the attributes are what is explored
UnitBox == Box(0, 0, 1, 1)

\* one record and its schema
Next ==
    \/ \E name \in Names : push(name)
    \/ \E id \in Ids : ctor("R1", id)
    \/ \E id \in Ids : set_id("R1", id)
    \/ \E key \in Names, val \in Values : put("R1", key, val)
    \/ num_geometries("R1") < 1 /\ add_geometry("R1", UnitBox)
    \/ \E raster \in Rasters : set_raster("R1", raster)
    \/ to_string("R1")

Spec == Init /\ [][Next]_vars

\* two records of one schema, registered before them: every name but name 1,
\* in descending order
RECURSIVE Descending(_)
Descending(n) == IF n < 2 THEN <<>> ELSE <<n>> \o Descending(n - 1)

InitShared ==
    /\ mapping_ = [n \in Names \ {1} |-> NumNames - n]
    /\ order = Descending(NumNames)
    /\ dup = FALSE
    /\ live = {}
    /\ id_ = [r \in Recs |-> 0]
    /\ data_ = [r \in Recs |-> <<>>]
    /\ geom_cont_ = [r \in Recs |-> <<>>]
    /\ raster_ = [r \in Recs |-> "none"]
    /\ ctorSize = [r \in Recs |-> 0]
    /\ ctorNames = [r \in Recs |-> {}]
    /\ last = NoCall

NextShared ==
    \/ \E r \in Recs, id \in Ids : ctor(r, id)
    \/ \E r \in Recs, id \in Ids : set_id(r, id)
    \/ \E r \in Recs, key \in Names, val \in Values : put(r, key, val)
    \/ \E r \in Recs : num_geometries(r) < 1 /\ add_geometry(r, UnitBox)
    \/ \E r \in Recs, raster \in Rasters : set_raster(r, raster)

SpecShared == InitShared /\ [][NextShared]_vars

\* the geometries of one record, constructed with identifier 0 on an empty schema
InitEnv ==
    /\ mapping_ = <<>>
    /\ order = <<>>
    /\ dup = FALSE
    /\ live = {"R1"}
    /\ id_ = [r \in Recs |-> 0]
    /\ data_ = [r \in Recs |-> <<>>]
    /\ geom_cont_ = [r \in Recs |-> <<>>]
    /\ raster_ = [r \in Recs |-> "none"]
    /\ ctorSize = [r \in Recs |-> 0]
    /\ ctorNames = [r \in Recs |-> {}]
    /\ last = [NoCall EXCEPT !.op = "ctor", !.rec = "R1"]

NextEnv ==
    \E geom \in Boxes : num_geometries("R1") < MaxGeoms /\ add_geometry("R1", geom)

SpecEnv == InitEnv /\ [][NextEnv]_vars

\* ------------------------------------------------------------ claims
Slots(r) == 1..Len(data_[r])

\* the call recorded in last is put(key, ...) on record r
LastPut(r, key) == last.op = "put" /\ last.rec = r /\ last.key = key

\* C1: on a record constructed after the registrations of its schema, put(n, v)
\* succeeds for every registered name n, and get(n) right after it returns v.
C1_PutThenGet ==
    \A r \in live :
        ctorNames[r] = DOMAIN mapping_ =>
            \A n \in DOMAIN mapping_ :
                /\ in_range(r, n)
                /\ LastPut(r, n) =>
                      /\ ~last.threw
                      /\ get(r, n) = [threw |-> FALSE, val |-> last.val]

C1_Witness ==
    /\ "R1" \in live
    /\ ctorNames["R1"] = DOMAIN mapping_
    /\ ctx_size = 2
    /\ last.op = "put" /\ last.rec = "R1" /\ ~last.threw /\ last.val # Null
    /\ mapping_[last.key] = 1
    /\ data_["R1"][1] # Null

\* the condition of KeyNotFound: the name is absent from the schema, or its slot
\* is not less than the length of the record's value sequence
Missing(r, n) == n \notin DOMAIN mapping_ \/ mapping_[n] >= Len(data_[r])

\* C2: put(name, v) and get(name) fail exactly when name is absent from the
\* schema or its slot is not less than the value sequence's length; a failed put
\* changes nothing of the record or the schema.
C2_KeyNotFound ==
    /\ [](\A r \in live, n \in Names : get(r, n).threw <=> Missing(r, n))
    /\ [][last'.op = "put" =>
            /\ last'.threw <=> Missing(last'.rec, last'.key)
            /\ last'.threw =>
                  UNCHANGED <<mapping_, live, id_, data_, geom_cont_, raster_>>]_vars

C2_Witness ==
    /\ last.op = "put" /\ last.rec = "R1" /\ last.threw
    /\ last.key \notin DOMAIN mapping_
    /\ \E i \in Slots("R1") : data_["R1"][i] # Null
    /\ id_["R1"] # 0 /\ raster_["R1"] = "raster" /\ num_geometries("R1") = 1

\* the registrations in call order, each with the slot of its position
Registered == [i \in 1..Len(order) |-> [name |-> order[i], slot |-> i - 1]]

\* C3 as stated: after register calls of pairwise distinct names on a fresh
\* schema, slot_count() is their number and iterate() yields them in registration
\* order with slots 0, 1, ..., N-1.
C3_RegistrationOrder ==
    ~dup => ctx_size = Len(order) /\ ctx_iterate = Registered

\* C3 amended: slot_count() is their number and iterate() yields exactly the N
\* names, each with the slot of its registration position, in ascending order of
\* the names.
C3_KeyOrder ==
    ~dup =>
        /\ ctx_size = Len(order)
        /\ Len(ctx_iterate) = Len(order)
        /\ {ctx_iterate[i] : i \in 1..Len(ctx_iterate)} =
           {Registered[i] : i \in 1..Len(order)}
        /\ \A i \in 1..Len(ctx_iterate), j \in 1..Len(ctx_iterate) :
              i < j => ctx_iterate[i].name < ctx_iterate[j].name

C3_Witness ==
    /\ ~dup
    /\ order = <<2, 1>>
    /\ ctx_iterate = <<[name |-> 1, slot |-> 1], [name |-> 2, slot |-> 0]>>

\* C4: a name keeps the slot it was assigned through every later register call,
\* repeated names included, and no two names have the same slot.
C4_SlotsStable ==
    /\ [](\A a \in DOMAIN mapping_, b \in DOMAIN mapping_ :
             mapping_[a] = mapping_[b] => a = b)
    /\ [][\A n \in DOMAIN mapping_ :
             n \in DOMAIN mapping_' /\ mapping_'[n] = mapping_[n]]_vars

C4_Witness ==
    /\ dup
    /\ last.op = "push"
    /\ ctx_size = 2
    /\ mapping_[last.key] = 0

\* C5 as stated: register(n) on a schema that maps n to slot k leaves n mapped
\* to another slot.
C5_Overwrites ==
    [][(last'.op = "push" /\ last'.key \in DOMAIN mapping_) =>
          mapping_'[last'.key] # mapping_[last'.key]]_vars

\* C5 amended: register(n) on a schema that already maps n changes nothing of
\* the schema, so n keeps its slot and the records built before stay in step.
C5_ReRegisterNoEffect ==
    [][(last'.op = "push" /\ last'.key \in DOMAIN mapping_) =>
          /\ mapping_' = mapping_
          /\ \A r \in live : \A n \in ctorNames[r] :
                mapping_'[n] < Len(data_'[r])]_vars

C5_Witness ==
    /\ dup
    /\ last.op = "push"
    /\ ctx_size = 1
    /\ "R1" \in live /\ ctorSize["R1"] = 1

\* C6: for a name first registered after the record was constructed, has is
\* true while put and get fail; put and get on the names registered before the
\* construction succeed.
C6_LateRegistration ==
    \A r \in live :
        /\ \A n \in DOMAIN mapping_ \ ctorNames[r] :
              /\ has_key(r, n)
              /\ get(r, n).threw
              /\ LastPut(r, n) => last.threw
        /\ \A n \in ctorNames[r] :
              /\ ~get(r, n).threw
              /\ LastPut(r, n) => ~last.threw

C6_Witness ==
    /\ last.op = "put" /\ last.rec = "R1" /\ last.threw
    /\ last.key \in DOMAIN mapping_ \ ctorNames["R1"]
    /\ has_key("R1", last.key)
    /\ \E n \in ctorNames["R1"] : get("R1", n).val # Null

\* C7: attribute_count() is the schema's slot_count() at the record's
\* construction, whatever was called since; a fresh record holds null in every
\* slot.
C7_AttributeCount ==
    \A r \in live :
        /\ size(r) = ctorSize[r]
        /\ (last.op = "ctor" /\ last.rec = r) =>
              /\ size(r) = ctx_size
              /\ \A i \in Slots(r) : data_[r][i] = Null

C7_Witness ==
    /\ "R1" \in live
    /\ size("R1") = 1 /\ ctx_size = 2
    /\ data_["R1"][1] # Null
    /\ id_["R1"] # 0 /\ raster_["R1"] = "raster" /\ num_geometries("R1") = 1

\* C8: describe() emits a line only for the names whose slot is less than
\* attribute_count(), and never reads a value slot outside the value sequence.
C8_DescribeInRange ==
    last.op = "to_string" =>
        /\ ~last.crashed
        /\ \A slot \in last.reads : slot < size(last.rec)
        /\ \A i \in 1..Len(last.out) : mapping_[last.out[i].name] < size(last.rec)

\* C9: put on one record, successful or failed, leaves the values, identifier,
\* geometries and raster of the other record, and the schema, unchanged.
C9_Independent ==
    [][last'.op = "put" =>
          /\ mapping_' = mapping_
          /\ \A r \in Recs \ {last'.rec} :
                /\ data_'[r] = data_[r]
                /\ id_'[r] = id_[r]
                /\ geom_cont_'[r] = geom_cont_[r]
                /\ raster_'[r] = raster_[r]]_vars

C9_Witness ==
    /\ live = Recs
    /\ last.op = "put" /\ last.rec = "R1" /\ ~last.threw
    /\ data_["R1"][mapping_[last.key] + 1] = last.val
    /\ data_["R2"][mapping_[last.key] + 1] # last.val
    /\ id_["R2"] # id_["R1"] /\ raster_["R2"] = "raster" /\ num_geometries("R2") = 1

\* the sequence with the elements at positions i and j exchanged
Exchanged(seq, i, j) == [seq EXCEPT ![i] = seq[j], ![j] = seq[i]]
Least(S) == CHOOSE x \in S : \A y \in S : x <= y
Greatest(S) == CHOOSE x \in S : \A y \in S : y <= x

\* C10: bounding_box() of no geometries is the empty rectangle; of one or more
\* it is the least minx and miny and the greatest maxx and maxy of their boxes,
\* the same in whatever order they were added (every collection of geometries
\* is reached, and exchanging any two of them gives the same rectangle);
\* [0,0]-[1,1] and [2,2]-[3,3] give [0,0]-[3,3].
C10_BoundingBox ==
    LET geoms == geom_cont_["R1"]
        n == num_geometries("R1")
        result == envelope("R1")
    IN /\ n = 0 => result = EmptyBox
       /\ n > 0 => result =
                     Box(Least({geoms[i].minx : i \in 1..n}),
                         Least({geoms[i].miny : i \in 1..n}),
                         Greatest({geoms[i].maxx : i \in 1..n}),
                         Greatest({geoms[i].maxy : i \in 1..n}))
       /\ \A i \in 1..n : \A j \in (i + 1)..n : envelope_of(Exchanged(geoms, i, j)) = result
       /\ envelope_of(<<Box(0, 0, 1, 1), Box(2, 2, 3, 3)>>) = Box(0, 0, 3, 3)
       /\ envelope_of(<<Box(2, 2, 3, 3), Box(0, 0, 1, 1)>>) = Box(0, 0, 3, 3)

C10_Witness ==
    /\ geom_cont_["R1"] = <<Box(1, 2, 2, 2), Box(0, 0, 1, 1)>>
    /\ envelope("R1") = Box(0, 0, 2, 2)

====
